---- MODULE Spec2Model ----
(***************************************************************************)
(* A model of fancy-garbling's Bristol-fashion circuit parser              *)
(* (fancy-garbling/src/parser.rs, Circuit::parse) and of the two-party     *)
(* driver of examples/semihonest_2pc.rs (run_circuit).                     *)
(*                                                                         *)
(* Text is modelled as sequences of one-character strings; the regular     *)
(* expressions of the parser are interpreted by MatchAt / Captures /       *)
(* line2vec below, so that what a line "matches" is what the regex crate   *)
(* would find in it (an unanchored, leftmost search).                      *)
(***************************************************************************)
EXTENDS Integers, Sequences, FiniteSets, TLC

VARIABLES
    pc,                 \* position of Circuit::parse
    garbler_inputs,     \* argument: Vec<usize>
    evaluator_inputs,   \* argument: Vec<usize>
    line,               \* the local `line` String of the header reads
    nread,              \* history: how many header lines read_line was asked for
    nwires,             \* local: wire count of line 1
    output_nwires,      \* local: widths of line 3
    circ,               \* the Circuit under construction
    id,                 \* local: next Mul id
    src,                \* history: the gate lines read so far (descriptors)
    result,             \* Result<Circuit, Error> once parse has returned
    gb,                 \* run_circuit: position of the garbler thread
    ev,                 \* run_circuit: position of the main (evaluator) thread
    chan,               \* run_circuit: the two directions of the channel
    job                 \* run_circuit: the circuit and input sizes of the run

pvars == <<pc, garbler_inputs, evaluator_inputs, line, nread, nwires, output_nwires,
           circ, id, src, result>>
rvars == <<gb, ev, chan, job>>
vars == <<pc, garbler_inputs, evaluator_inputs, line, nread, nwires, output_nwires,
          circ, id, src, result, gb, ev, chan, job>>

(***************************************************************************)
(* Bounds of the model.                                                    *)
(***************************************************************************)
\* usize is modelled as 0..UsizeMax; arithmetic wraps modulo UsizeMax + 1.
UsizeMax == 15
\* Longest garbler / evaluator index list supplied to parse.
MaxInputs == 2
\* Most gate lines (blank ones included) a file holds after its header.
MaxGateLines == 3

UsizeMod == UsizeMax + 1

(***************************************************************************)
(* Text.                                                                   *)
(***************************************************************************)
DigitChars == <<"0", "1", "2", "3", "4", "5", "6", "7", "8", "9">>

IsDigit(c) == c \in {"0", "1", "2", "3", "4", "5", "6", "7", "8", "9"}

DigitVal(c) == (CHOOSE i \in 1..10 : DigitChars[i] = c) - 1

\* char::is_whitespace as far as the regex class \s sees the model's alphabet
IsSpace(c) == c \in {" ", "\n", "\t", "\r"}

\* usize::to_string: the decimal text of n
RECURSIVE Dec(_)
Dec(n) == IF n < 10 THEN <<DigitChars[n + 1]>>
          ELSE Dec(n \div 10) \o <<DigitChars[(n % 10) + 1]>>

\* tokens joined by single spaces
RECURSIVE Join(_)
Join(toks) == IF Len(toks) = 0 THEN <<>>
              ELSE IF Len(toks) = 1 THEN toks[1]
              ELSE toks[1] \o <<" ">> \o Join(Tail(toks))

\* <usize as FromStr>::from_str on a run of digits: the value, or an overflow
RECURSIVE DecValue(_, _)
DecValue(s, acc) ==
    IF Len(s) = 0 THEN acc
    ELSE IF acc > UsizeMax THEN acc
    ELSE DecValue(Tail(s), acc * 10 + DigitVal(s[1]))

ParseUsize(s) ==
    LET v == DecValue(s, 0)
    IN  IF Len(s) = 0 \/ v > UsizeMax THEN [ok |-> FALSE, val |-> 0]
        ELSE [ok |-> TRUE, val |-> v]

\* the index after the maximal run of digits that starts at i
RECURSIVE RunEnd(_, _)
RunEnd(s, i) == IF i <= Len(s) /\ IsDigit(s[i]) THEN RunEnd(s, i + 1) ELSE i

RECURSIVE SpaceEnd(_, _)
SpaceEnd(s, i) == IF i <= Len(s) /\ IsSpace(s[i]) THEN SpaceEnd(s, i + 1) ELSE i

(***************************************************************************)
(* The regular expressions of parse.  A pattern is a sequence of elements: *)
(* a one-character literal, "\\d+" (a captured run of digits), "\\s*" or   *)
(* "(AND|XOR)" (a captured alternative).                                   *)
(***************************************************************************)
ReInt == <<"\\d+">>
ReIntWs == <<"\\d+", "\\s*">>
Re1 == <<"1", " ", "1", " ", "\\d+", " ", "\\d+", " ", "I", "N", "V">>
Re2 == <<"2", " ", "1", " ", "\\d+", " ", "\\d+", " ", "\\d+", " ", "(AND|XOR)">>

NoMatch == [ok |-> FALSE, caps |-> <<>>, end |-> 0]

\* the match of re[k..] at position i of s, given the captures so far
RECURSIVE MatchAt(_, _, _, _, _)
MatchAt(re, s, k, i, caps) ==
    IF k > Len(re) THEN [ok |-> TRUE, caps |-> caps, end |-> i]
    ELSE IF re[k] = "\\d+" THEN
        IF i <= Len(s) /\ IsDigit(s[i])
        THEN MatchAt(re, s, k + 1, RunEnd(s, i),
                     Append(caps, SubSeq(s, i, RunEnd(s, i) - 1)))
        ELSE NoMatch
    ELSE IF re[k] = "\\s*" THEN MatchAt(re, s, k + 1, SpaceEnd(s, i), caps)
    ELSE IF re[k] = "(AND|XOR)" THEN
        IF i + 2 <= Len(s) /\ SubSeq(s, i, i + 2) \in {<<"A", "N", "D">>, <<"X", "O", "R">>}
        THEN MatchAt(re, s, k + 1, i + 3, Append(caps, SubSeq(s, i, i + 2)))
        ELSE NoMatch
    ELSE IF i <= Len(s) /\ s[i] = re[k] THEN MatchAt(re, s, k + 1, i + 1, caps)
    ELSE NoMatch

\* Regex::captures: the leftmost match at or after position i
RECURSIVE SearchFrom(_, _, _)
SearchFrom(re, s, i) ==
    IF i > Len(s) + 1 THEN NoMatch
    ELSE LET m == MatchAt(re, s, 1, i, <<>>)
         IN  IF m.ok THEN m ELSE SearchFrom(re, s, i + 1)

Captures(re, s) == SearchFrom(re, s, 1)

\* line2vec: group 1 of every successive non-overlapping match
RECURSIVE line2vecFrom(_, _, _)
line2vecFrom(re, s, i) ==
    LET m == SearchFrom(re, s, i)
    IN  IF ~m.ok THEN <<>>
        ELSE <<m.caps[1]>> \o line2vecFrom(re, s, m.end)

line2vec(re, s) == line2vecFrom(re, s, 1)

(***************************************************************************)
(* The circuit data of parse.                                              *)
(***************************************************************************)
Some(x) == <<x>>

Range(f) == {f[i] : i \in DOMAIN f}

CircuitRef(ix) == [ix |-> ix, modulus |-> 2]

\* Circuit::new: no gates, no refs
EmptyCircuit ==
    [gates |-> <<>>, garbler_input_refs |-> <<>>, evaluator_input_refs |-> <<>>,
     const_refs |-> <<>>, output_refs |-> <<>>, gate_moduli |-> <<>>]

NoResult == [tag |-> "None"]
Ok == [tag |-> "Ok"]
InputError == [tag |-> "InputError"]
ParseIntError == [tag |-> "ParseIntError"]
ParseLineError(l) == [tag |-> "ParseLineError", line |-> l]
ParseGateError(s) == [tag |-> "ParseGateError", op |-> s]

\* a variant that compares the two lists position by position
DuplicatesByPosition(g, e) ==
    {g[i] : i \in {i \in DOMAIN g : i \in DOMAIN e /\ g[i] = e[i]}}

\* garbler_input_set.intersection(&evaluator_input_set)
Duplicates(g, e) == Range(g) \cap Range(e)

\* HashSet::len of the collected index list
SetLen(list) == Cardinality(Range(list))

GarblerInputGate(i) == [type |-> "GarblerInput", id |-> i]
EvaluatorInputGate(i) == [type |-> "EvaluatorInput", id |-> i]
ConstantGate == [type |-> "Constant", val |-> 1]

\* a variant with the operands of Sub exchanged
InvGateSwapped(oneref, yref, out) ==
    [type |-> "Sub", xref |-> CircuitRef(yref), yref |-> oneref, out |-> Some(out)]

\* the gate of an INV line
InvGate(oneref, yref, out) ==
    [type |-> "Sub", xref |-> oneref, yref |-> CircuitRef(yref), out |-> Some(out)]

\* the gate of an XOR line
XorGate(xref, yref, out) ==
    [type |-> "Add", xref |-> CircuitRef(xref), yref |-> CircuitRef(yref), out |-> Some(out)]

\* the gate of an AND line
AndGate(xref, yref, mid, out) ==
    [type |-> "Mul", xref |-> CircuitRef(xref), yref |-> CircuitRef(yref),
     id |-> mid, out |-> Some(out)]

\* a variant that hands out the same id again
NextIdSame(mid) == mid

\* id += 1
NextId(mid) == mid + 1

\* a variant that puts the new gate in front of the list
PushGateFront(gates, gate) == <<gate>> \o gates

\* circ.gates.push(gate)
PushGate(gates, gate) == Append(gates, gate)

\* cap2typ
cap2typ(s) ==
    IF s = <<"A", "N", "D">> THEN [ok |-> TRUE, typ |-> "AndGate"]
    ELSE IF s = <<"X", "O", "R">> THEN [ok |-> TRUE, typ |-> "XorGate"]
    ELSE [ok |-> FALSE, typ |-> "none"]

\* The text side of one turn of the loop over reader.lines(): the first
\* character picks the regex, the captures are converted (cap2int, cap2typ).
\* res is "inv", "and" or "xor" (a gate line, with its wire indices), "skip"
\* (an empty line) or "err" (parse returns err).
LineScan(l) ==
    IF Len(l) = 0 THEN [res |-> "skip"]
    ELSE IF l[1] = "1" THEN
        LET cap == Captures(Re1, l)
            y == ParseUsize(cap.caps[1])
            o == ParseUsize(cap.caps[2])
        IN  IF ~cap.ok THEN [res |-> "err", err |-> ParseLineError(l)]
            ELSE IF ~y.ok \/ ~o.ok THEN [res |-> "err", err |-> ParseIntError]
            ELSE [res |-> "inv", yref |-> y.val, out |-> o.val]
    ELSE IF l[1] = "2" THEN
        LET cap == Captures(Re2, l)
            x == ParseUsize(cap.caps[1])
            y == ParseUsize(cap.caps[2])
            o == ParseUsize(cap.caps[3])
            t == cap2typ(cap.caps[4])
        IN  IF ~cap.ok THEN [res |-> "err", err |-> ParseLineError(l)]
            ELSE IF ~x.ok \/ ~y.ok \/ ~o.ok THEN [res |-> "err", err |-> ParseIntError]
            ELSE IF ~t.ok THEN [res |-> "err", err |-> ParseGateError(cap.caps[4])]
            ELSE [res |-> IF t.typ = "AndGate" THEN "and" ELSE "xor",
                  xref |-> x.val, yref |-> y.val, out |-> o.val]
    ELSE [res |-> "err", err |-> ParseLineError(l)]

\* One turn of the loop, given the scanned line, the constant ref and the next
\* Mul id: a gate is pushed ("gate"), nothing happens ("skip") or parse
\* returns the error ("err").
GateStep(scan, oneref, mid) ==
    IF scan.res = "inv"
    THEN [res |-> "gate", id |-> mid, gate |-> InvGate(oneref, scan.yref, scan.out)]
    ELSE IF scan.res = "and"
    THEN [res |-> "gate", id |-> NextId(mid),
          gate |-> AndGate(scan.xref, scan.yref, mid, scan.out)]
    ELSE IF scan.res = "xor"
    THEN [res |-> "gate", id |-> mid, gate |-> XorGate(scan.xref, scan.yref, scan.out)]
    ELSE IF scan.res = "skip" THEN [res |-> "skip", id |-> mid]
    ELSE [res |-> "err", err |-> scan.err]

\* A header line "<count> <width>...": the parsed count and widths, a returned
\* error, or a panic (line_k[0] on an empty vector, unwrap of a width that does
\* not fit usize).
HeaderStep(l) ==
    LET v == line2vec(ReIntWs, l)
    IN  IF Len(v) = 0 THEN [res |-> "panic"]
        ELSE IF ~ParseUsize(v[1]).ok THEN [res |-> "err", err |-> ParseIntError]
        ELSE IF \E k \in 2..Len(v) : ~ParseUsize(v[k]).ok THEN [res |-> "panic"]
        ELSE IF Len(v) - 1 # ParseUsize(v[1]).val
        THEN [res |-> "err", err |-> ParseLineError(l)]
        ELSE [res |-> "ok", widths |-> [k \in 1..(Len(v) - 1) |-> ParseUsize(v[k + 1]).val]]

\* The first line "<ngates> <nwires>".
FirstLineStep(l) ==
    LET v == line2vec(ReInt, l)
    IN  IF Len(v) # 2 THEN [res |-> "err", err |-> ParseLineError(l)]
        ELSE IF ~ParseUsize(v[1]).ok \/ ~ParseUsize(v[2]).ok
        THEN [res |-> "err", err |-> ParseIntError]
        ELSE [res |-> "ok", ngates |-> ParseUsize(v[1]).val, nwires |-> ParseUsize(v[2]).val]

\* nwires - output_nwires[0] + i in wrapping usize arithmetic
OutputIx(nw, w0, i) == (((nw - w0) % UsizeMod) + i) % UsizeMod

\* The prelude and the refs of parse, lines 136-170, when no arithmetic check fires.
Prelude(g, e, nw, w0) ==
    LET ng == SetLen(g)
        ne == SetLen(e)
    IN  [gates |-> [i \in 1..ng |-> GarblerInputGate(i - 1)]
                   \o [i \in 1..ne |-> EvaluatorInputGate(i - 1)]
                   \o <<ConstantGate>>,
         garbler_input_refs |-> [i \in 1..ng |-> CircuitRef(g[i])],
         evaluator_input_refs |-> [i \in 1..ne |-> CircuitRef(e[i])],
         const_refs |-> <<CircuitRef(ng + ne)>>,
         output_refs |-> [i \in 1..w0 |-> CircuitRef(OutputIx(nw, w0, i - 1))],
         gate_moduli |-> <<>>]

(***************************************************************************)
(* The inputs of parse: the two index lists and the text of the file.      *)
(***************************************************************************)
\* wire indices a caller's list may name
InputWires == {0, 1}

InputLists == UNION {[1..n -> InputWires] : n \in 0..MaxInputs}

\* a header line of the file as read_line returns it: the text and its "\n"
Hdr(toks) == Join(toks) \o <<"\n">>

\* what read_line leaves in `line` at the end of the file
AtEof == <<>>

Junk == <<"x">>

TooBig == Dec(UsizeMax + 1)

Line1Menu ==
    { Hdr(<<Dec(1), Dec(3)>>),              \* 1 gate, 3 wires
      Hdr(<<Dec(1), Junk, Dec(3)>>),        \* two digit runs around other text
      Hdr(<<Dec(3)>>),                      \* one integer
      Hdr(<<Dec(1), Dec(2), Dec(3)>>),      \* three integers
      Hdr(<<TooBig, Dec(3)>>),              \* a gate count that does not fit usize
      AtEof }                               \* an empty file

Line2Menu ==
    { Hdr(<<Dec(2), Dec(1), Dec(1)>>),      \* two input groups
      Hdr(<<Dec(0)>>),                      \* no input group
      Hdr(<<Dec(2), Dec(1)>>),              \* a width is missing
      Hdr(<<Dec(1), TooBig>>),              \* a width that does not fit usize
      Hdr(<<TooBig, Dec(1)>>),              \* a count that does not fit usize
      Hdr(<<>>),                            \* an empty line
      AtEof }                               \* a file of one line

Line3Menu ==
    { Hdr(<<Dec(1), Dec(1)>>),              \* one output group of width 1
      Hdr(<<Dec(1), Dec(2)>>),              \* one output group of width 2
      Hdr(<<Dec(2), Dec(1), Dec(2)>>),      \* two output groups
      Hdr(<<Dec(1), Dec(4)>>),              \* a first width above the wire count 3
      Hdr(<<Dec(0)>>),                      \* no output group
      Hdr(<<Dec(1)>>),                      \* a width is missing
      Hdr(<<Dec(1), TooBig>>),              \* a width that does not fit usize
      Hdr(<<>>),                            \* an empty line
      AtEof }                               \* a file of two lines

\* A gate line of the file is drawn as a descriptor and read as its text.
GateLine(kind, a, b, out, deco) ==
    [kind |-> kind, a |-> a, b |-> b, out |-> out, deco |-> deco]

BlankLine == [kind |-> "blank", a |-> 0, b |-> 0, out |-> 0, deco |-> "none"]

\* the text of a gate line in the format's shape
ShapeText(d) ==
    IF d.kind = "INV"
    THEN Join(<<Dec(1), Dec(1), Dec(d.a), Dec(d.out), <<"I", "N", "V">>>>)
    ELSE IF d.kind = "AND"
    THEN Join(<<Dec(2), Dec(1), Dec(d.a), Dec(d.b), Dec(d.out), <<"A", "N", "D">>>>)
    ELSE IF d.kind = "XOR"
    THEN Join(<<Dec(2), Dec(1), Dec(d.a), Dec(d.b), Dec(d.out), <<"X", "O", "R">>>>)
    ELSE IF d.kind = "OR"
    THEN Join(<<Dec(2), Dec(1), Dec(d.a), Dec(d.b), Dec(d.out), <<"O", "R">>>>)
    ELSE <<>>

\* the text of the line: the shape, or the shape with something added
Render(d) ==
    IF d.deco = "none" THEN ShapeText(d)
    ELSE IF d.deco = "trail" THEN ShapeText(d) \o <<"Z">>
    ELSE IF d.deco = "space" THEN <<" ">>
    ELSE ShapeText(d)

WellFormedLines ==
    { GateLine("AND", 0, 1, 2, "none"),
      GateLine("XOR", 0, 2, 3, "none"),
      GateLine("INV", 3, 0, 4, "none"),
      GateLine("AND", 2, 3, 0, "none") }

MalformedLines ==
    { GateLine("XOR", 0, 1, 2, "trail"),            \* "2 1 0 1 2 XORZ"
      GateLine("blank", 0, 0, 0, "space"),          \* a line of one space
      GateLine("OR", 0, 1, 2, "none"),              \* an operator that is no gate
      GateLine("INV", UsizeMax + 1, 0, 0, "none") } \* a wire index that does not fit

GateMenu == WellFormedLines \cup {BlankLine} \cup MalformedLines

\* the text of each line of the menu
TextOf == [d \in GateMenu |-> Render(d)]

\* what the parser makes of the text of each line of the menu
ScanOf == [d \in GateMenu |-> LineScan(TextOf[d])]

(***************************************************************************)
(* Circuit::parse, one action per step.                                    *)
(***************************************************************************)
Idle == [ip |-> 0, k |-> 0]
NoChan == [g2e |-> <<>>, e2g |-> <<>>]
NoJob == [n_gb |-> 0, n_ev |-> 0, gates |-> <<>>]

Init ==
    /\ pc = "start"
    /\ garbler_inputs \in InputLists
    /\ evaluator_inputs \in InputLists
    /\ line = <<>>
    /\ nread = 0
    /\ nwires = 0
    /\ output_nwires = <<>>
    /\ circ = EmptyCircuit
    /\ id = 0
    /\ src = <<>>
    /\ result = NoResult
    /\ gb = Idle
    /\ ev = Idle
    /\ chan = NoChan
    /\ job = NoJob

Return(r) ==
    /\ pc' = IF r.tag = "Ok" THEN "done" ELSE "err"
    /\ result' = r

Panic ==
    /\ pc' = "panic"
    /\ result' = NoResult

\* lines 71-77: the two sets and the overlap check
CheckOverlap ==
    /\ pc = "start"
    /\ IF Cardinality(Duplicates(garbler_inputs, evaluator_inputs)) > 0
       THEN Return(InputError)
       ELSE pc' = "line1" /\ result' = result
    /\ UNCHANGED <<garbler_inputs, evaluator_inputs, line, nread, nwires,
                   output_nwires, circ, id, src, rvars>>

\* lines 82-94
ReadLine1 ==
    /\ pc = "line1"
    /\ \E l \in Line1Menu :
        /\ line' = l
        /\ nread' = nread + 1
        /\ LET r == FirstLineStep(l)
           IN  IF r.res = "ok"
               THEN pc' = "line2" /\ nwires' = r.nwires /\ result' = result
               ELSE Return(r.err) /\ nwires' = nwires
    /\ UNCHANGED <<garbler_inputs, evaluator_inputs, output_nwires, circ, id, src, rvars>>

\* lines 96-114
ReadLine2 ==
    /\ pc = "line2"
    /\ \E l \in Line2Menu :
        /\ line' = l
        /\ nread' = nread + 1
        /\ LET r == HeaderStep(l)
           IN  IF r.res = "ok" THEN pc' = "line3" /\ result' = result
               ELSE IF r.res = "err" THEN Return(r.err)
               ELSE Panic
    /\ UNCHANGED <<garbler_inputs, evaluator_inputs, nwires, output_nwires, circ, id,
                   src, rvars>>

\* lines 116-134
ReadLine3 ==
    /\ pc = "line3"
    /\ \E l \in Line3Menu :
        /\ line' = l
        /\ nread' = nread + 1
        /\ LET r == HeaderStep(l)
           IN  IF r.res = "ok"
               THEN pc' = "prelude" /\ output_nwires' = r.widths /\ result' = result
               ELSE /\ output_nwires' = output_nwires
                    /\ IF r.res = "err" THEN Return(r.err) ELSE Panic
    /\ UNCHANGED <<garbler_inputs, evaluator_inputs, nwires, circ, id, src, rvars>>

\* lines 136-175.  output_nwires[0] panics on an empty vector; with a first
\* width above nwires the subtraction of line 167 overflows: a panic in a build
\* with overflow checks, a wrapped index in a build without.
BuildPrelude ==
    /\ pc = "prelude"
    /\ \E overflow_checks \in BOOLEAN :
        IF Len(output_nwires) = 0 THEN Panic /\ circ' = circ
        ELSE IF output_nwires[1] > 0 /\ output_nwires[1] > nwires /\ overflow_checks
        THEN Panic /\ circ' = circ
        ELSE /\ circ' = Prelude(garbler_inputs, evaluator_inputs, nwires, output_nwires[1])
             /\ pc' = "gates"
             /\ result' = result
    /\ line' = <<>>
    /\ id' = 0
    /\ UNCHANGED <<garbler_inputs, evaluator_inputs, nread, nwires, output_nwires, src,
                   rvars>>

\* lines 178-233: one turn of the loop over the remaining lines
ReadGateLine ==
    /\ pc = "gates"
    /\ Len(src) < MaxGateLines
    /\ \E d \in GateMenu :
        /\ src' = Append(src, d)
        /\ LET r == GateStep(ScanOf[d], circ.const_refs[1], id)
           IN  IF r.res = "gate"
               THEN /\ circ' = [circ EXCEPT !.gates = PushGate(@, r.gate)]
                    /\ id' = r.id
                    /\ pc' = pc /\ result' = result
               ELSE IF r.res = "skip"
               THEN UNCHANGED <<circ, id, pc, result>>
               ELSE Return(r.err) /\ UNCHANGED <<circ, id>>
    /\ UNCHANGED <<garbler_inputs, evaluator_inputs, line, nread, nwires, output_nwires,
                   rvars>>

\* lines 234-235: the lines are exhausted
EndOfFile ==
    /\ pc = "gates"
    /\ circ' = [circ EXCEPT !.gate_moduli = [i \in 1..Len(circ.gates) |-> 2]]
    /\ Return(Ok)
    /\ UNCHANGED <<garbler_inputs, evaluator_inputs, line, nread, nwires, output_nwires,
                   id, src, rvars>>

Next ==
    \/ CheckOverlap
    \/ ReadLine1
    \/ ReadLine2
    \/ ReadLine3
    \/ BuildPrelude
    \/ ReadGateLine
    \/ EndOfFile

Spec == Init /\ [][Next]_vars

(***************************************************************************)
(* run_circuit: the spawned garbler thread and the main thread, which is   *)
(* the evaluator, over the two directions of one channel.  Each thread     *)
(* runs its program, a list of calls; a call is a series of sends,         *)
(* receives and local steps.                                               *)
(***************************************************************************)
\* Most messages one direction of the channel buffers before send blocks.
ChanCap == 2

\* the calls of the spawned closure, lines 27-48
GarblerProgram == <<"new", "encode_many", "receive_many", "eval">>

\* a variant of the main thread that encodes its inputs before it receives
EvaluatorProgramSwapped == <<"new", "encode_many", "receive_many", "eval", "join">>

\* the calls of the main thread, lines 49-69
EvaluatorProgram == <<"new", "receive_many", "encode_many", "eval", "join">>

GateKinds == {"Add", "Sub", "Mul"}

\* the runs: the numbers of garbler and evaluator inputs and the gates of the
\* circuit after its prelude
Jobs ==
    [n_gb : 0..MaxInputs, n_ev : 0..MaxInputs,
     gates : UNION {[1..n -> GateKinds] : n \in 0..MaxGateLines}]

Local == [act |-> "local", msg |-> "none"]
Done == [act |-> "done", msg |-> "none"]
Send(m) == [act |-> "send", msg |-> m]
Recv(m) == [act |-> "recv", msg |-> m]

\* What the garbler does next in call op after k steps of it.  encode_many
\* sends the label of each garbler input; receive_many is the sending side of
\* the oblivious transfer: it takes the evaluator's choices and answers with
\* one label per evaluator input; eval sends the table of each Mul gate.
GarblerWant(op, k, j) ==
    IF op = "new" THEN (IF k = 0 THEN Local ELSE Done)
    ELSE IF op = "encode_many" THEN (IF k < j.n_gb THEN Send("label") ELSE Done)
    ELSE IF op = "receive_many" THEN
        IF j.n_ev = 0 \/ k = j.n_ev + 1 THEN Done
        ELSE IF k = 0 THEN Recv("ot_choice")
        ELSE Send("ot_label")
    ELSE IF op = "eval" THEN
        IF k = Len(j.gates) THEN Done
        ELSE IF j.gates[k + 1] = "Mul" THEN Send("table")
        ELSE Local
    ELSE Done

\* What the evaluator does next in call op after k steps of it.  receive_many
\* takes the label of each garbler input; encode_many is the receiving side of
\* the oblivious transfer; eval takes the table of each Mul gate; join waits
\* for the garbler thread.
EvaluatorWant(op, k, j) ==
    IF op = "new" THEN (IF k = 0 THEN Local ELSE Done)
    ELSE IF op = "receive_many" THEN (IF k < j.n_gb THEN Recv("label") ELSE Done)
    ELSE IF op = "encode_many" THEN
        IF j.n_ev = 0 \/ k = j.n_ev + 1 THEN Done
        ELSE IF k = 0 THEN Send("ot_choice")
        ELSE Recv("ot_label")
    ELSE IF op = "eval" THEN
        IF k = Len(j.gates) THEN Done
        ELSE IF j.gates[k + 1] = "Mul" THEN Recv("table")
        ELSE Local
    ELSE IF op = "join" THEN (IF k = 0 THEN [act |-> "join", msg |-> "none"] ELSE Done)
    ELSE Done

GbFinished == gb.ip > Len(GarblerProgram)
EvFinished == ev.ip > Len(EvaluatorProgram)

GbWant == IF GbFinished THEN [act |-> "none", msg |-> "none"]
          ELSE GarblerWant(GarblerProgram[gb.ip], gb.k, job)
EvWant == IF EvFinished THEN [act |-> "none", msg |-> "none"]
          ELSE EvaluatorWant(EvaluatorProgram[ev.ip], ev.k, job)

InitRun ==
    /\ pc = "run"
    /\ garbler_inputs = <<>>
    /\ evaluator_inputs = <<>>
    /\ line = <<>>
    /\ nread = 0
    /\ nwires = 0
    /\ output_nwires = <<>>
    /\ circ = EmptyCircuit
    /\ id = 0
    /\ src = <<>>
    /\ result = NoResult
    /\ job \in Jobs
    /\ gb = [ip |-> 1, k |-> 0]
    /\ ev = [ip |-> 1, k |-> 0]
    /\ chan = NoChan

GbLocal ==
    /\ GbWant.act = "local"
    /\ gb' = [gb EXCEPT !.k = @ + 1]
    /\ UNCHANGED <<ev, chan, job, pvars>>

\* a blocking send: it waits while the buffer of its direction is full
GbSend ==
    /\ GbWant.act = "send"
    /\ Len(chan.g2e) < ChanCap
    /\ chan' = [chan EXCEPT !.g2e = Append(@, GbWant.msg)]
    /\ gb' = [gb EXCEPT !.k = @ + 1]
    /\ UNCHANGED <<ev, job, pvars>>

\* a blocking receive: it waits for the message this call is to take
GbRecv ==
    /\ GbWant.act = "recv"
    /\ Len(chan.e2g) > 0
    /\ Head(chan.e2g) = GbWant.msg
    /\ chan' = [chan EXCEPT !.e2g = Tail(@)]
    /\ gb' = [gb EXCEPT !.k = @ + 1]
    /\ UNCHANGED <<ev, job, pvars>>

\* the call returns; after the last one the closure ends
GbReturn ==
    /\ GbWant.act = "done"
    /\ gb' = [ip |-> gb.ip + 1, k |-> 0]
    /\ UNCHANGED <<ev, chan, job, pvars>>

EvLocal ==
    /\ EvWant.act = "local"
    /\ ev' = [ev EXCEPT !.k = @ + 1]
    /\ UNCHANGED <<gb, chan, job, pvars>>

EvSend ==
    /\ EvWant.act = "send"
    /\ Len(chan.e2g) < ChanCap
    /\ chan' = [chan EXCEPT !.e2g = Append(@, EvWant.msg)]
    /\ ev' = [ev EXCEPT !.k = @ + 1]
    /\ UNCHANGED <<gb, job, pvars>>

EvRecv ==
    /\ EvWant.act = "recv"
    /\ Len(chan.g2e) > 0
    /\ Head(chan.g2e) = EvWant.msg
    /\ chan' = [chan EXCEPT !.g2e = Tail(@)]
    /\ ev' = [ev EXCEPT !.k = @ + 1]
    /\ UNCHANGED <<gb, job, pvars>>

\* handle.join(): returns once the garbler thread has ended
EvJoin ==
    /\ EvWant.act = "join"
    /\ GbFinished
    /\ ev' = [ev EXCEPT !.k = @ + 1]
    /\ UNCHANGED <<gb, chan, job, pvars>>

EvReturn ==
    /\ EvWant.act = "done"
    /\ ev' = [ip |-> ev.ip + 1, k |-> 0]
    /\ UNCHANGED <<gb, chan, job, pvars>>

GarblerStep == GbLocal \/ GbSend \/ GbRecv \/ GbReturn
EvaluatorStep == EvLocal \/ EvSend \/ EvRecv \/ EvJoin \/ EvReturn

NextRun == GarblerStep \/ EvaluatorStep

\* both threads are scheduled for as long as they can run
RunSpec == InitRun /\ [][NextRun]_vars /\ WF_vars(GarblerStep) /\ WF_vars(EvaluatorStep)

(***************************************************************************)
(* Properties of Circuit::parse.                                           *)
(***************************************************************************)
\* the two supplied lists name a common wire index
SharesIndex ==
    \E i \in DOMAIN garbler_inputs, j \in DOMAIN evaluator_inputs :
        garbler_inputs[i] = evaluator_inputs[j]

Returned == pc = "done"

\* C1: with index lists that share a wire index, parse returns InputError and
\* no Circuit, and it does so before read_line is asked for any line of the
\* file: nothing was read, scanned or built.
C1_OverlapIsInputError ==
    (SharesIndex /\ pc # "start") =>
        /\ pc = "err"
        /\ result = InputError
        /\ nread = 0
        /\ line = <<>>
        /\ src = <<>>
        /\ circ = EmptyCircuit

C1_Witness ==
    /\ SharesIndex
    /\ pc = "err"
    /\ result = InputError
    /\ Len(garbler_inputs) = 2
    /\ garbler_inputs[1] # evaluator_inputs[1]

\* the positions of l at which a run of digits starts
RunStarts(l) ==
    {i \in 1..Len(l) : IsDigit(l[i]) /\ (i = 1 \/ ~IsDigit(l[i - 1]))}

\* the line is two integers and nothing else but the blanks around them
TwoIntegers(l) ==
    /\ \A i \in 1..Len(l) : IsDigit(l[i]) \/ IsSpace(l[i])
    /\ Cardinality(RunStarts(l)) = 2

\* C2: once line 1 was read (the index sets being disjoint), a line 1 that is
\* anything other than exactly two integers has made parse return
\* ParseLineError with the text of that line; no other shape is accepted.
C2_HeaderShape ==
    (nread = 1 /\ ~TwoIntegers(line)) =>
        (pc = "err" /\ result = ParseLineError(line))

\* the line has one of the two admissible shapes of a gate line
HasGateShape(d) == d.deco = "none" /\ d.kind \in {"INV", "AND", "XOR"}

IsBlank(d) == d.kind = "blank" /\ d.deco = "none"

\* C3: the first non-blank gate line that has neither admissible shape (or
\* names an operator that is none of AND, XOR, INV) is the last line read:
\* parse has returned a parse error that carries the text of that line.
C3_AllOrNothing ==
    \A i \in 1..Len(src) :
        (~IsBlank(src[i]) /\ ~HasGateShape(src[i])) =>
            /\ i = Len(src)
            /\ pc = "err"
            /\ result \in {ParseLineError(TextOf[src[i]]), ParseGateError(TextOf[src[i]])}

\* C4: a returned Circuit has output_width[0] output refs, and entry i is wire
\* wire_count - output_width[0] + i with modulus 2: the highest-indexed wires
\* in ascending order.
C4_OutputRefs ==
    Returned =>
        /\ Len(circ.output_refs) = output_nwires[1]
        /\ \A i \in 0..(output_nwires[1] - 1) :
            circ.output_refs[i + 1] = [ix |-> nwires - output_nwires[1] + i, modulus |-> 2]

\* C5: a returned Circuit starts with one GarblerInput gate per supplied
\* garbler wire, one EvaluatorInput gate per supplied evaluator wire and one
\* Constant{1} gate, and the input refs name the supplied wires one for one,
\* also when a supplied list repeats an index.
C5_Prelude ==
    Returned =>
        LET ng == Len(garbler_inputs)
            ne == Len(evaluator_inputs)
        IN  /\ Len(circ.garbler_input_refs) = ng
            /\ Len(circ.evaluator_input_refs) = ne
            /\ Len(circ.gates) >= ng + ne + 1
            /\ \A i \in 1..ng :
                /\ circ.gates[i] = [type |-> "GarblerInput", id |-> i - 1]
                /\ circ.garbler_input_refs[i] = [ix |-> garbler_inputs[i], modulus |-> 2]
            /\ \A i \in 1..ne :
                /\ circ.gates[ng + i] = [type |-> "EvaluatorInput", id |-> i - 1]
                /\ circ.evaluator_input_refs[i] = [ix |-> evaluator_inputs[i], modulus |-> 2]
            /\ circ.gates[ng + ne + 1] = [type |-> "Constant", val |-> 1]

\* the gates that follow the Constant gate
AfterPrelude(gates) ==
    LET p == CHOOSE i \in 1..Len(gates) : gates[i].type = "Constant"
    IN  SubSeq(gates, p + 1, Len(gates))

\* a gate without its Mul id
Operands(g) == [type |-> g.type, xref |-> g.xref, yref |-> g.yref, out |-> g.out]

\* what the format says the lines mean, blank lines left out
RECURSIVE MeaningOf(_, _)
MeaningOf(lines, one) ==
    IF Len(lines) = 0 THEN <<>>
    ELSE LET d == lines[1]
             rest == MeaningOf(Tail(lines), one)
         IN  IF d.kind = "INV"
             THEN <<[type |-> "Sub", xref |-> one,
                     yref |-> [ix |-> d.a, modulus |-> 2], out |-> <<d.out>>]>> \o rest
             ELSE IF d.kind = "XOR"
             THEN <<[type |-> "Add", xref |-> [ix |-> d.a, modulus |-> 2],
                     yref |-> [ix |-> d.b, modulus |-> 2], out |-> <<d.out>>]>> \o rest
             ELSE IF d.kind = "AND"
             THEN <<[type |-> "Mul", xref |-> [ix |-> d.a, modulus |-> 2],
                     yref |-> [ix |-> d.b, modulus |-> 2], out |-> <<d.out>>]>> \o rest
             ELSE rest

WellFormedFile == \A i \in 1..Len(src) : IsBlank(src[i]) \/ HasGateShape(src[i])

\* C6: for a well-formed file the gates after the prelude are the non-blank
\* gate lines in file order, one gate per line: INV is Sub from the constant
\* ref, XOR is Add, AND is Mul, each with the operands and the out wire of its
\* line; blank lines leave no trace.
C6_GatesAreTheLines ==
    (Returned /\ WellFormedFile) =>
        LET gs == AfterPrelude(circ.gates)
        IN  [i \in 1..Len(gs) |-> Operands(gs[i])] = MeaningOf(src, circ.const_refs[1])

C6_Witness ==
    /\ Returned
    /\ WellFormedFile
    /\ Len(src) = 3
    /\ src[1].kind = "AND"
    /\ IsBlank(src[2])
    /\ src[3].kind = "INV"
    /\ Len(AfterPrelude(circ.gates)) = 2

IsMul(g) == g.type = "Mul"

IsAndLine(d) == d.kind = "AND"

\* C7: in a returned Circuit the k-th Mul gate (k from 0) has id k and is the
\* gate of the k-th AND line of the file: the ids are unique, increase along
\* the gate list, and XOR, INV and blank lines consume none.
C7_MulIds ==
    Returned =>
        LET muls == SelectSeq(circ.gates, IsMul)
            ands == SelectSeq(src, IsAndLine)
        IN  /\ Len(muls) = Len(ands)
            /\ \A k \in 1..Len(muls) :
                /\ muls[k].id = k - 1
                /\ muls[k].xref.ix = ands[k].a
                /\ muls[k].yref.ix = ands[k].b
                /\ muls[k].out = <<ands[k].out>>

C7_Witness ==
    /\ Returned
    /\ Len(src) = 3
    /\ src[1].kind = "AND"
    /\ src[2].kind = "XOR"
    /\ src[3].kind = "AND"
    /\ circ.gates[Len(circ.gates)].id = 1

\* the wires produced before position k of the gate list: those of the input
\* refs and the constant ref, and the out wires of the earlier gates
ProducedBefore(c, k) ==
    {c.garbler_input_refs[i].ix : i \in DOMAIN c.garbler_input_refs}
    \cup {c.evaluator_input_refs[i].ix : i \in DOMAIN c.evaluator_input_refs}
    \cup {c.const_refs[i].ix : i \in DOMAIN c.const_refs}
    \cup {c.gates[j].out[1] : j \in {j \in 1..(k - 1) : c.gates[j].type \in {"Add", "Sub", "Mul"}}}

DependencyOrder(c) ==
    \A k \in 1..Len(c.gates) :
        c.gates[k].type \in {"Add", "Sub", "Mul"} =>
            /\ c.gates[k].xref.ix \in ProducedBefore(c, k)
            /\ c.gates[k].yref.ix \in ProducedBefore(c, k)

\* the wires a gate line reads
Reads(d) == IF d.kind = "INV" THEN {d.a} ELSE IF d.kind \in {"AND", "XOR"} THEN {d.a, d.b} ELSE {}

\* every gate line of the file reads only input wires, the constant wire and
\* wires that are the out of an earlier line
FileListsProducersFirst ==
    \A i \in 1..Len(src) :
        Reads(src[i]) \subseteq
            ({circ.garbler_input_refs[j].ix : j \in DOMAIN circ.garbler_input_refs}
             \cup {circ.evaluator_input_refs[j].ix : j \in DOMAIN circ.evaluator_input_refs}
             \cup {circ.const_refs[j].ix : j \in DOMAIN circ.const_refs}
             \cup {src[j].out : j \in {j \in 1..(i - 1) : src[j].kind \in {"INV", "AND", "XOR"}}})

\* C8 as stated: in a returned Circuit every Add, Sub and Mul gate reads only
\* wires produced by a gate earlier in the list, so a file that reads an
\* undefined wire is not returned as a Circuit.
C8_DependencyOrder == Returned => DependencyOrder(circ)

\* C8 as amended: parse checks no wire; a returned Circuit is in dependency
\* order exactly when the file lists the producer of every wire a gate line
\* reads before that line.
C8_OrderFollowsFile == Returned => (DependencyOrder(circ) <=> FileListsProducersFirst)

C8_Witness ==
    /\ Returned
    /\ Len(src) = 3
    /\ \A i \in 1..3 : HasGateShape(src[i])
    /\ src[3].kind = "INV"
    /\ DependencyOrder(circ)

\* C9: parse ends with a Circuit or with a returned error, never abnormally.
C9_NoAbort == pc # "panic"

IsSub(g) == g.type = "Sub"

\* the wire indices of the garbler and evaluator input refs
InputWireIxs(c) ==
    {c.garbler_input_refs[i].ix : i \in DOMAIN c.garbler_input_refs}
    \cup {c.evaluator_input_refs[i].ix : i \in DOMAIN c.evaluator_input_refs}

\* the out wires of the gates parsed from the gate lines
ParsedOutIxs(c) ==
    {c.gates[k].out[1] : k \in {k \in 1..Len(c.gates) : c.gates[k].type \in {"Add", "Sub", "Mul"}}}

\* C11: a returned Circuit has exactly one constant ref, its wire index is the
\* number of garbler input gates plus the number of evaluator input gates, it
\* is the x operand of every Sub gate, and that wire index is none of the
\* input wire indices and the out wire of no parsed gate, so that in an array
\* of wire values indexed by wire index nothing overwrites the constant 1.
C11_ConstantWire ==
    Returned =>
        /\ Len(circ.const_refs) = 1
        /\ circ.const_refs[1] =
               [ix |-> Len(circ.garbler_input_refs) + Len(circ.evaluator_input_refs),
                modulus |-> 2]
        /\ \A k \in 1..Len(circ.gates) :
               IsSub(circ.gates[k]) => circ.gates[k].xref = circ.const_refs[1]
        /\ circ.const_refs[1].ix \notin InputWireIxs(circ)
        /\ circ.const_refs[1].ix \notin ParsedOutIxs(circ)

(***************************************************************************)
(* Properties of run_circuit.                                              *)
(***************************************************************************)
\* C10: the two threads meet at the exchange points in the same order with
\* complementary calls, so every fair interleaving runs to completion: both
\* threads end, the join of the garbler thread has returned, and nothing is
\* left in the channel.
C10_RunsToCompletion ==
    <>(GbFinished /\ EvFinished /\ chan = NoChan)

C10_Witness ==
    /\ GbFinished
    /\ EvFinished
    /\ chan = NoChan
    /\ job.n_gb = 2
    /\ job.n_ev = 2
    /\ Len(job.gates) = 3
    /\ job.gates[1] = "Mul"
    /\ job.gates[3] = "Mul"

====
